---------------------------- MODULE Spec2Model ----------------------------
(***************************************************************************)
(* State-machine model of the authenticated API client with token refresh  *)
(* (src/lib/api/api-client.ts), its error normalisation                    *)
(* (src/lib/utils/error-handlers.ts), the auth store that calls it         *)
(* (src/features/auth/store/auth-store.ts), and the credential store       *)
(* (lib/storage/secure-storage.ts) with its cipher                         *)
(* (src/lib/security/encryption.ts).                                       *)
(*                                                                         *)
(* Spec, SpecPair and FairSpecPair run the API client over the credential  *)
(* store as a key-value map; SpecAuth adds the operations of the auth      *)
(* store; SpecStorage and SpecRekey look under the map, at SecureStorage   *)
(* over its two backends, without the client; SpecConc lets SecureStorage  *)
(* calls overlap; SpecCipher calls the cipher directly.                    *)
(*                                                                         *)
(* Granularity: JavaScript runs every handler to its next `await`.  One    *)
(* action is the completion of one awaited I/O operation (network reply,   *)
(* storage operation) together with the synchronous code that follows it   *)
(* up to the next await.  The continuations of the awaiters of a settled   *)
(* promise are microtasks: they sit in microq, run in registration order,  *)
(* and no I/O completion is handled while microq is not empty.             *)
(***************************************************************************)
EXTENDS Integers, Sequences, FiniteSets, TLC

(***************************************************************************)
(* Bounds                                                                  *)
(***************************************************************************)
\* number of logical requests the application issues through apiClient
NReq == 3

Req == 1..NReq

\* one request starts at most one refresh, so NReq refresh calls suffice
MaxRefresh == NReq

Refresh == 1..MaxRefresh

(***************************************************************************)
(* Token values.  None is null/absent, Empty is the empty string (a string *)
(* that JavaScript treats as falsy), every other token is a positive       *)
(* number.                                                                 *)
(***************************************************************************)
None == 0 - 1

Empty == 0

\* the access token found in the credential store at process start
InitialToken == 1

\* a stored refresh token
StoredRefreshToken == 1

\* the access token the refresh endpoint hands out on refresh call k
NewToken(k) == 10 + k

Truthy(t) == t > 0

VARIABLES
  store,                \* secureStore: key -> value (None when absent)
  isRefreshingToken,    \* api-client.ts:19
  tokenRefreshPromise,  \* api-client.ts:20, 0 is null, k the promise of refresh k
  nref,                 \* number of refreshToken() calls made so far
  ref,                  \* the refreshToken() calls and their promises
  req,                  \* the requests
  microq,               \* pending microtasks: requests to resume, in order
  defaults,             \* apiClient.defaults.headers.common['Authorization']
  auth,                 \* the auth store: its running operation, its
                        \* isAuthenticated field (auth-store.ts:33), and
                        \* loginAt, the number of refreshes that had been
                        \* started when the latest login stored its token
  platformOS,           \* Platform.OS, "native" or "web"
  backend,              \* the platform key-value store under SecureStorage
  encryptionKeyPromise, \* encryption.ts:37, 0 is null, k the derived key
  nkeys,                \* number of keys getEncryptionKey() has derived
  written,              \* per key, what the completed set/delete calls left
  lastOp,               \* the last SecureStorage call and what it returned
  calls                 \* the calls of SecureStorage and of the cipher that
                        \* run concurrently, each with its position

\* the state of api-client.ts and of the credential store it reads and writes
clientVars == <<store, isRefreshingToken, tokenRefreshPromise, nref, ref, req, microq>>

\* the state of the auth store and of the axios instance defaults it sets
authVars == <<defaults, auth>>

\* the state of secure-storage.ts and encryption.ts
storageVars ==
  <<platformOS, backend, encryptionKeyPromise, nkeys, written, lastOp, calls>>

vars == <<store, isRefreshingToken, tokenRefreshPromise, nref, ref, req, microq,
          defaults, auth,
          platformOS, backend, encryptionKeyPromise, nkeys, written, lastOp,
          calls>>

(***************************************************************************)
(* Error normalisation                                                     *)
(***************************************************************************)
\* the shapes of response.data that handleApiError distinguishes
Bodies == {"empty", "code"}

\* an AxiosError carrying a response
HttpError(status, body) ==
  [axios |-> TRUE, isError |-> TRUE, response |-> TRUE, request |-> TRUE,
   status |-> status, body |-> body]

\* an AxiosError without a response: timeout, connection failure
NoResponseError ==
  [axios |-> TRUE, isError |-> TRUE, response |-> FALSE, request |-> TRUE,
   status |-> 0, body |-> "empty"]

\* the cancellation raised before the transport is used: no response, no request
CanceledError ==
  [axios |-> TRUE, isError |-> TRUE, response |-> FALSE, request |-> FALSE,
   status |-> 0, body |-> "empty"]

\* a plain JavaScript Error (new Error(...), TypeError)
PlainError ==
  [axios |-> FALSE, isError |-> TRUE, response |-> FALSE, request |-> FALSE,
   status |-> 0, body |-> "empty"]

\* error-handlers.ts:86-159, the code of the ApiError it returns
handleApiError(error) ==
  IF error.axios
  THEN IF error.response
       THEN CASE error.body = "code"        -> "SERVER_CODE"
              [] error.body = "errorString" -> "SERVER_ERROR_STRING"
              [] error.body = "errorObject" -> "API_ERROR"
              [] OTHER                      -> "UNKNOWN_ERROR"
       ELSE IF error.request THEN "NETWORK_ERROR" ELSE "UNKNOWN_ERROR"
  ELSE IF error.isError THEN "CLIENT_ERROR" ELSE "UNKNOWN_ERROR"

(***************************************************************************)
(* Initial state                                                           *)
(***************************************************************************)
NoRefresh ==
  [pc |-> "unused", by |-> 0, val |-> None,
   posted |-> FALSE, stored |-> FALSE, w |-> <<>>]

NewRequest ==
  [pc |-> "idle", retry |-> FALSE, hdr |-> None, aw |-> 0, join |-> 0,
   role |-> "none", sent |-> 0, ent |-> 0, res |-> "none", s401 |-> 0]

\* no operation of the auth store is running, none has run
NoAuthOp ==
  [op |-> "none", pc |-> "idle", r |-> 0, out |-> "none", n |-> 0,
   isAuthenticated |-> FALSE, loginAt |-> 0]

\* the auth store is not used: the instance defaults carry no Authorization header
AuthUnused ==
  /\ defaults = None
  /\ auth = NoAuthOp

\* the keys SecureStorage is called with
Keys == {"auth_token", "refresh_token"}

\* secure-storage.ts:8
KEY_PREFIX == "medical_app_secure_"

\* secure-storage.ts:37, `${KEY_PREFIX}${key}`: a key of the platform store is
\* the pair of its leading part and the rest
prefixedKey(key) == <<KEY_PREFIX, key>>

\* keys of the platform store that other code writes: the persisted state of
\* the auth store, auth-store.ts:174
OtherKeys == {<<"", "auth-storage">>}

\* the keys of the platform store
StoreKeys == {prefixedKey(k) : k \in Keys} \cup OtherKeys

\* the filter that keeps every key
startsWithAnything(storeKey, prefix) == TRUE

\* secure-storage.ts:160, key.startsWith(KEY_PREFIX)
startsWith(storeKey, prefix) == storeKey[1] = prefix

\* no item under a key of the platform store
Absent == [iv |-> FALSE, key |-> 0, plain |-> None]

\* no SecureStorage call has been made
NoOp == [op |-> "none", key |-> "none", ret |-> None, threw |-> FALSE,
         has |-> FALSE, read |-> FALSE]

\* number of calls that run concurrently
NCalls == 3
Call == 1 .. NCalls

\* a call that has not been made; prev and seen record, for a get, the value
\* in place when it started and the values written while it was running
NoCall ==
  [op |-> "none", pc |-> "free", key |-> "none", value |-> None,
   blob |-> Absent, ret |-> None, threw |-> FALSE, read |-> FALSE,
   prev |-> None, seen |-> {}, src |-> 0]

\* the layers under the credential store are not looked into
StorageUnused ==
  /\ platformOS = "native"
  /\ backend = [k \in StoreKeys |-> Absent]
  /\ encryptionKeyPromise = 0
  /\ nkeys = 0
  /\ written = [k \in Keys |-> None]
  /\ lastOp = NoOp
  /\ calls = [c \in Call |-> NoCall]

\* The credential store is durable: what it holds at process start is an input.
Init ==
  /\ store \in [auth_token : {None, InitialToken},
                refresh_token : {None, StoredRefreshToken}]
  /\ isRefreshingToken = FALSE
  /\ tokenRefreshPromise = 0
  /\ nref = 0
  /\ ref = [k \in Refresh |-> NoRefresh]
  /\ req = [r \in Req |-> NewRequest]
  /\ microq = <<>>
  /\ AuthUnused
  /\ StorageUnused

\* the same, with only the first NPair requests ever issued
NPair == 2

InitPair ==
  /\ store \in [auth_token : {None, InitialToken},
                refresh_token : {None, StoredRefreshToken}]
  /\ isRefreshingToken = FALSE
  /\ tokenRefreshPromise = 0
  /\ nref = 0
  /\ ref = [k \in Refresh |-> NoRefresh]
  /\ req = [r \in Req |-> IF r <= NPair THEN NewRequest
                                        ELSE [NewRequest EXCEPT !.pc = "off"]]
  /\ microq = <<>>
  /\ AuthUnused
  /\ StorageUnused

(***************************************************************************)
(* Helpers                                                                 *)
(***************************************************************************)
Settled(k) == ref[k].pc \in {"resolved", "rejected"}

\* a call of refreshToken() that has not returned yet
Executing(k) == ref[k].pc \in {"getRT", "post", "setTok"}

\* requests suspended at api-client.ts:81 on a promise they did not create
Followers81 == {r \in Req : req[r].pc = "await" /\ ref[req[r].aw].by # r}

\* room for one more request in the refresh protocol (each may call refreshToken once)
CanEnter == nref + Cardinality(Followers81) < MaxRefresh

\* the guard without the _retry test
RetryGuardDropped(r) == TRUE

\* api-client.ts:74, the `!originalRequest._retry` half of the guard
RetryGuard(r) == ~req[r].retry

\* api-client.ts:112-115
Finally ==
  /\ isRefreshingToken' = FALSE
  /\ tokenRefreshPromise' = 0

\* the handler rejects with handleApiError(error), api-client.ts:119
Reject(r, error) ==
  /\ req' = [req EXCEPT ![r].pc = "done",
                        ![r].res = handleApiError(error),
                        ![r].s401 = IF error.status = 401 THEN @ + 1 ELSE @]
  /\ UNCHANGED <<store, isRefreshingToken, tokenRefreshPromise, nref, ref, microq>>

\* api-client.ts:89-92: set the flag, call refreshToken(), await its promise.
\* refreshToken() runs synchronously up to its first await (line 126).
StartRefresh(r, rq) ==
  LET k == nref + 1 IN
  /\ isRefreshingToken' = TRUE
  /\ tokenRefreshPromise' = k
  /\ nref' = k
  /\ ref' = [ref EXCEPT ![k] = [pc |-> "getRT", by |-> r,
                                val |-> None, posted |-> FALSE,
                                stored |-> FALSE, w |-> <<r>>]]
  /\ req' = [req EXCEPT ![r] = [rq EXCEPT !.pc = "await", !.aw = k,
                                          !.join = IF rq.join = 0 THEN k ELSE rq.join]]

\* the connectivity test left out
OfflineIgnored(connected) == FALSE

\* api-client.ts:27, `!networkState.isConnected`
Offline(connected) == ~connected

(***************************************************************************)
(* Request interceptor, api-client.ts:23-53, followed by the dispatch.     *)
(* connected: NetInfo's answer; hasEnv: whether the request config carries *)
(* an `environment` object (line 43 reads config.environment.version of    *)
(* the request config); aborted: the caller cancelled the request.  The    *)
(* call of apiClient and the run of the interceptor are one step, taken    *)
(* when the interceptor reads the store.                                   *)
(***************************************************************************)
RequestInterceptor(r, connected, hasEnv, aborted) ==
  /\ microq = <<>>
  /\ req[r].pc \in {"idle", "replay"}
  /\ req[r].pc = "idle" => \A q \in Req : q < r => req[q].pc # "idle"
  /\ req[r].pc = "replay" => hasEnv
  /\ LET token == store.auth_token
         \* a new request starts from the instance defaults, a replay from
         \* the headers it was sent with
         base == IF req[r].pc = "idle" THEN defaults ELSE req[r].hdr
         hdr == IF Truthy(token) THEN token ELSE base
     IN  IF Offline(connected)
         THEN Reject(r, PlainError)
         ELSE IF ~hasEnv
         THEN Reject(r, PlainError)
         ELSE IF aborted
         THEN Reject(r, CanceledError)
         ELSE /\ req' = [req EXCEPT ![r].pc = "sent", ![r].hdr = hdr,
                                    ![r].sent = @ + 1]
              /\ UNCHANGED <<store, isRefreshingToken, tokenRefreshPromise,
                             nref, ref, microq>>
  /\ UNCHANGED <<authVars, storageVars>>

(***************************************************************************)
(* Response interceptor                                                    *)
(***************************************************************************)
\* api-client.ts:61-69
ResponseOk(r) ==
  /\ microq = <<>>
  /\ req[r].pc = "sent"
  /\ req' = [req EXCEPT ![r].pc = "done", ![r].res = "OK"]
  /\ UNCHANGED <<store, isRefreshingToken, tokenRefreshPromise, nref, ref, microq>>
  /\ UNCHANGED <<authVars, storageVars>>

\* api-client.ts:70-92: a 401 on a request that was not retried yet
Response401(r) ==
  /\ microq = <<>>
  /\ req[r].pc = "sent"
  /\ RetryGuard(r)
  /\ CanEnter
  /\ LET rq == [req[r] EXCEPT !.retry = TRUE, !.ent = @ + 1, !.s401 = @ + 1] IN
     IF isRefreshingToken /\ tokenRefreshPromise # 0
     THEN LET k == tokenRefreshPromise IN
          /\ req' = [req EXCEPT ![r] = [rq EXCEPT !.pc = "await", !.aw = k,
                                                  !.join = k, !.role = "follower"]]
          /\ IF Settled(k)
             THEN /\ microq' = <<r>>
                  /\ ref' = ref
             ELSE /\ microq' = microq
                  /\ ref' = [ref EXCEPT ![k].w = Append(@, r)]
          /\ UNCHANGED <<store, isRefreshingToken, tokenRefreshPromise, nref>>
     ELSE /\ StartRefresh(r, [rq EXCEPT !.role = "leader"])
          /\ UNCHANGED <<store, microq>>
  /\ UNCHANGED <<authVars, storageVars>>

\* api-client.ts:70-74,118-119: a failure of the transport call that does not
\* enter the refresh protocol: a 401 on a request already retried, or no
\* response at all (every status other than 401 takes the same path)
ResponseError(r, error) ==
  /\ microq = <<>>
  /\ req[r].pc = "sent"
  /\ error.status = 401 => ~RetryGuard(r)
  /\ Reject(r, error)
  /\ UNCHANGED <<authVars, storageVars>>

(***************************************************************************)
(* refreshToken(), api-client.ts:124-153                                   *)
(***************************************************************************)
\* only the request that created the promise is woken
AwaitersLeaderOnly(k) == SelectSeq(ref[k].w, LAMBDA r : ref[k].by = r)

\* the continuations registered on the promise of refresh k, in await order
Awaiters(k) == ref[k].w

\* the promise of refresh k settles: its awaiters become microtasks
Settle(k, how, val, stored) ==
  /\ ref' = [ref EXCEPT ![k].pc = how, ![k].val = val, ![k].stored = stored,
                        ![k].w = <<>>]
  /\ microq' = Awaiters(k)

\* api-client.ts:126-141
RefreshGetItem(k) ==
  /\ microq = <<>>
  /\ ref[k].pc = "getRT"
  /\ IF Truthy(store.refresh_token)
     THEN /\ ref' = [ref EXCEPT ![k].pc = "post", ![k].posted = TRUE]
          /\ microq' = microq
     ELSE Settle(k, "rejected", None, FALSE)
  /\ UNCHANGED <<store, isRefreshingToken, tokenRefreshPromise, nref, req>>
  /\ UNCHANGED <<authVars, storageVars>>

\* api-client.ts:132-146: the refresh endpoint answers
RefreshResponse(k, token) ==
  /\ microq = <<>>
  /\ ref[k].pc = "post"
  /\ ref' = [ref EXCEPT ![k].pc = "setTok", ![k].val = token]
  /\ UNCHANGED <<store, isRefreshingToken, tokenRefreshPromise, nref, req, microq>>
  /\ UNCHANGED <<authVars, storageVars>>

\* api-client.ts:132,149-152: the refresh endpoint call fails
RefreshError(k) ==
  /\ microq = <<>>
  /\ ref[k].pc = "post"
  /\ Settle(k, "rejected", None, FALSE)
  /\ UNCHANGED <<store, isRefreshingToken, tokenRefreshPromise, nref, req>>
  /\ UNCHANGED <<authVars, storageVars>>

\* api-client.ts:146-152: secureStore.setItem('auth_token', token) completes
RefreshSetItem(k, ok) ==
  /\ microq = <<>>
  /\ ref[k].pc = "setTok"
  /\ IF ok
     THEN /\ store' = [store EXCEPT !.auth_token = ref[k].val]
          /\ Settle(k, "resolved", ref[k].val, TRUE)
     ELSE /\ store' = store
          /\ Settle(k, "rejected", None, FALSE)
  /\ UNCHANGED <<isRefreshingToken, tokenRefreshPromise, nref, req>>
  /\ UNCHANGED <<authVars, storageVars>>

(***************************************************************************)
(* Continuation of a request after the awaited refresh promise settled     *)
(***************************************************************************)
\* api-client.ts:81-86 and 92-103
Resume(r) ==
  /\ microq # <<>>
  /\ r = Head(microq)
  /\ microq' = Tail(microq)
  /\ LET k == req[r].aw
         newToken == ref[k].val
     IN  IF ref[k].pc = "rejected"
         THEN \* catch: secureStore.deleteItem('auth_token') is issued
              /\ req' = [req EXCEPT ![r].pc = "catch1"]
              /\ UNCHANGED <<store, isRefreshingToken, tokenRefreshPromise, nref, ref>>
         ELSE IF ref[k].by = r \/ Truthy(newToken)
         THEN \* set the header, replay, finally
              /\ req' = [req EXCEPT ![r].pc = "replay", ![r].hdr = newToken]
              /\ Finally
              /\ UNCHANGED <<store, nref, ref>>
         ELSE \* a follower that got a falsy token falls through to line 89
              /\ StartRefresh(r, req[r])
              /\ UNCHANGED store
  /\ UNCHANGED <<authVars, storageVars>>

\* api-client.ts:103-104,112-115: deleteItem('auth_token') completes
DeleteAuthToken(r, ok) ==
  /\ microq = <<>>
  /\ req[r].pc = "catch1"
  /\ IF ok
     THEN /\ store' = [store EXCEPT !.auth_token = None]
          /\ req' = [req EXCEPT ![r].pc = "catch2"]
          /\ UNCHANGED <<isRefreshingToken, tokenRefreshPromise>>
     ELSE /\ store' = store
          /\ req' = [req EXCEPT ![r].pc = "done", ![r].res = "STORAGE_ERROR"]
          /\ Finally
  /\ UNCHANGED <<nref, ref, microq>>
  /\ UNCHANGED <<authVars, storageVars>>

\* api-client.ts:104-115: deleteItem('refresh_token') completes
DeleteRefreshToken(r, ok) ==
  /\ microq = <<>>
  /\ req[r].pc = "catch2"
  /\ IF ok
     THEN /\ store' = [store EXCEPT !.refresh_token = None]
          /\ req' = [req EXCEPT ![r].pc = "done", ![r].res = "AUTH_REQUIRED"]
     ELSE /\ store' = store
          /\ req' = [req EXCEPT ![r].pc = "done", ![r].res = "STORAGE_ERROR"]
  /\ Finally
  /\ UNCHANGED <<nref, ref, microq>>
  /\ UNCHANGED <<authVars, storageVars>>

(***************************************************************************)
(* Specification                                                           *)
(***************************************************************************)
Next ==
  \/ \E r \in Req, connected, hasEnv, aborted \in BOOLEAN :
        RequestInterceptor(r, connected, hasEnv, aborted)
  \/ \E r \in Req : ResponseOk(r)
  \/ \E r \in Req : Response401(r)
  \/ \E r \in Req, body \in Bodies :
        ResponseError(r, HttpError(401, body))
  \/ \E r \in Req : ResponseError(r, NoResponseError)
  \/ \E k \in Refresh : RefreshGetItem(k)
  \/ \E k \in Refresh : RefreshResponse(k, NewToken(k))
  \/ \E k \in Refresh : RefreshResponse(k, Empty)
  \/ \E k \in Refresh : RefreshError(k)
  \/ \E k \in Refresh, ok \in BOOLEAN : RefreshSetItem(k, ok)
  \/ \E r \in Req : Resume(r)
  \/ \E r \in Req, ok \in BOOLEAN : DeleteAuthToken(r, ok)
  \/ \E r \in Req, ok \in BOOLEAN : DeleteRefreshToken(r, ok)

Spec == Init /\ [][Next]_vars

SpecPair == InitPair /\ [][Next]_vars

\* the event loop runs every ready continuation and every I/O call completes
FairSpecPair == InitPair /\ [][Next]_vars /\ WF_vars(Next)

(***************************************************************************)
(* The auth store, features/auth/store/auth-store.ts.  Its operations call *)
(* the API through apiClient, write the credential store and set the       *)
(* Authorization header of the instance defaults.  An operation that       *)
(* awaits a storage call is one step, taken when the storage call          *)
(* completes.  register (auth-store.ts:71-107) is the code of login with   *)
(* another endpoint.                                                       *)
(***************************************************************************)
\* number of operations the application starts on the auth store, one at a time
MaxAuthOps == 2

\* response.data.token of the login endpoint, auth-store.ts:49
LoginToken == 2

\* no operation is running and the application may start one
AuthFree == auth.pc \in {"idle", "done"} /\ auth.n < MaxAuthOps

\* the next request the application issues goes out as request r
IssueSlot(r) == req[r].pc = "idle" /\ \A q \in Req : q < r => req[q].pc # "idle"

\* the apiClient call the running operation awaits has been returned
CallReturned == auth.pc = "call" /\ req[auth.r].pc = "done"

\* auth-store.ts:39-47: login calls apiClient.post(endpoints.auth.login, ...)
Login(r) ==
  /\ microq = <<>>
  /\ AuthFree
  /\ IssueSlot(r)
  /\ auth' = [op |-> "login", pc |-> "call", r |-> r, out |-> "none",
              n |-> auth.n + 1, isAuthenticated |-> auth.isAuthenticated,
              loginAt |-> auth.loginAt]
  /\ UNCHANGED <<clientVars, defaults, storageVars>>

\* auth-store.ts:49-63: the call succeeded, secureStore.setItem('auth_token',
\* token) completes, then the default header is set
LoginSetItem(ok) ==
  /\ microq = <<>>
  /\ auth.op = "login" /\ CallReturned
  /\ req[auth.r].res = "OK"
  /\ IF ok
     THEN /\ store' = [store EXCEPT !.auth_token = LoginToken]
          /\ defaults' = LoginToken
          /\ auth' = [auth EXCEPT !.pc = "done", !.out = "ok",
                                  !.isAuthenticated = TRUE, !.loginAt = nref]
     ELSE /\ auth' = [auth EXCEPT !.pc = "done", !.out = "threw"]
          /\ UNCHANGED <<store, defaults>>
  /\ UNCHANGED <<isRefreshingToken, tokenRefreshPromise, nref, ref, req, microq,
                 storageVars>>

\* auth-store.ts:65-68: the call failed, login rethrows
LoginFailed ==
  /\ microq = <<>>
  /\ auth.op = "login" /\ CallReturned
  /\ req[auth.r].res # "OK"
  /\ auth' = [auth EXCEPT !.pc = "done", !.out = "threw"]
  /\ UNCHANGED <<clientVars, defaults, storageVars>>

\* auth-store.ts:109-131: secureStore.deleteItem('auth_token') completes
Logout(ok) ==
  /\ microq = <<>>
  /\ AuthFree
  /\ IF ok
     THEN /\ store' = [store EXCEPT !.auth_token = None]
          /\ defaults' = None
          /\ auth' = [op |-> "logout", pc |-> "done", r |-> 0, out |-> "ok",
                      n |-> auth.n + 1, isAuthenticated |-> FALSE,
                      loginAt |-> auth.loginAt]
     ELSE /\ auth' = [op |-> "logout", pc |-> "done", r |-> 0, out |-> "threw",
                      n |-> auth.n + 1,
                      isAuthenticated |-> auth.isAuthenticated,
                      loginAt |-> auth.loginAt]
          /\ UNCHANGED <<store, defaults>>
  /\ UNCHANGED <<isRefreshingToken, tokenRefreshPromise, nref, ref, req, microq,
                 storageVars>>

\* auth-store.ts:133-143: checkAuth finds no token in the store
CheckAuthNoToken ==
  /\ microq = <<>>
  /\ AuthFree
  /\ ~Truthy(store.auth_token)
  /\ auth' = [op |-> "checkAuth", pc |-> "done", r |-> 0, out |-> "ok",
              n |-> auth.n + 1, isAuthenticated |-> FALSE,
              loginAt |-> auth.loginAt]
  /\ UNCHANGED <<clientVars, defaults, storageVars>>

\* auth-store.ts:133-149: checkAuth finds a token, sets the default header
\* and calls apiClient.get(endpoints.auth.me)
CheckAuthCall(r) ==
  /\ microq = <<>>
  /\ AuthFree
  /\ IssueSlot(r)
  /\ Truthy(store.auth_token)
  /\ defaults' = store.auth_token
  /\ auth' = [op |-> "checkAuth", pc |-> "call", r |-> r, out |-> "none",
              n |-> auth.n + 1, isAuthenticated |-> auth.isAuthenticated,
              loginAt |-> auth.loginAt]
  /\ UNCHANGED <<clientVars, storageVars>>

\* auth-store.ts:151-157: the call succeeded
CheckAuthOk ==
  /\ microq = <<>>
  /\ auth.op = "checkAuth" /\ CallReturned
  /\ req[auth.r].res = "OK"
  /\ auth' = [auth EXCEPT !.pc = "done", !.out = "ok",
                          !.isAuthenticated = TRUE]
  /\ UNCHANGED <<clientVars, defaults, storageVars>>

\* auth-store.ts:159-170: the call failed, whatever the error; the
\* secureStore.deleteItem('auth_token') of the catch block completes
CheckAuthDelete(ok) ==
  /\ microq = <<>>
  /\ auth.op = "checkAuth" /\ CallReturned
  /\ req[auth.r].res # "OK"
  /\ IF ok
     THEN /\ store' = [store EXCEPT !.auth_token = None]
          /\ defaults' = None
          /\ auth' = [auth EXCEPT !.pc = "done", !.out = "ok",
                                  !.isAuthenticated = FALSE]
     ELSE /\ auth' = [auth EXCEPT !.pc = "done", !.out = "threw"]
          /\ UNCHANGED <<store, defaults>>
  /\ UNCHANGED <<isRefreshingToken, tokenRefreshPromise, nref, ref, req, microq,
                 storageVars>>

\* the API client together with the auth store
NextAuth ==
  \/ Next
  \/ \E r \in Req : Login(r)
  \/ \E ok \in BOOLEAN : LoginSetItem(ok)
  \/ LoginFailed
  \/ \E ok \in BOOLEAN : Logout(ok)
  \/ CheckAuthNoToken
  \/ \E r \in Req : CheckAuthCall(r)
  \/ CheckAuthOk
  \/ \E ok \in BOOLEAN : CheckAuthDelete(ok)

SpecAuth == InitPair /\ [][NextAuth]_vars

(***************************************************************************)
(* SecureStorage (lib/storage/secure-storage.ts) over its two backends and *)
(* the cipher of lib/security/encryption.ts.  An item of the platform      *)
(* store is a record: iv tells whether it has the `iv:ciphertext` format   *)
(* of encrypt, key is the key it was encrypted under (0 for a value stored *)
(* as it is), plain the value.  A SecureStorage call is one step.          *)
(* process.env.ENCRYPTION_KEY is not set: with it the key never changes.   *)
(***************************************************************************)
\* number of keys getEncryptionKey() derives
MaxKeys == 2

\* the values the callers store; Empty is the empty string
Secrets == {Empty, 1, 2}

\* encryption.ts:32, the hardcoded key used when the derivation fails
DefaultKey == 1

\* encryption.ts:20-27, the key derived from the n-th random seed
RandomKey(n) == 1 + n

\* the result of a decrypt that throws
Threw == 0 - 2

\* encryption.ts:118, bytes of a wrong decryption that happen to be a string
Garbage == 99

\* what CryptoJS.AES.decrypt(...).toString(Utf8) gives under a wrong key: it
\* throws 'Malformed UTF-8 data', or the padding removal leaves no bytes and
\* it returns the empty string, or the bytes decode to some string
WrongKeyOutcomes == {Threw, Empty, Garbage}

\* encryption.ts:9-34
getEncryptionKey(failed) == IF failed THEN DefaultKey ELSE RandomKey(nkeys + 1)

\* encryption.ts:57-61 and 94-98: the key encrypt and decrypt work with
KeyFor(failed) ==
  IF encryptionKeyPromise = 0 THEN getEncryptionKey(failed)
                              ELSE encryptionKeyPromise

\* encryption.ts:57-59: the key is derived on first use and kept
UseKey(failed) ==
  /\ encryptionKeyPromise = 0 => nkeys < MaxKeys
  /\ encryptionKeyPromise' = KeyFor(failed)
  /\ nkeys' = IF encryptionKeyPromise = 0 THEN nkeys + 1 ELSE nkeys

\* the cipher that returns its input
encryptNothing(data, key) == [iv |-> FALSE, key |-> 0, plain |-> data]

\* encryption.ts:54-83
encrypt(data, key) == [iv |-> TRUE, key |-> key, plain |-> data]

\* encryption.ts:91-123; outcome is what the cipher gives under a wrong key
decrypt(encryptedData, key, outcome) ==
  IF ~encryptedData.iv THEN Threw
  ELSE IF encryptedData.key = key THEN encryptedData.plain
  ELSE outcome

\* secure-storage.ts:41: the value is handed to the native store as it is
Plain(value) == [iv |-> FALSE, key |-> 0, plain |-> value]

\* the removal that removes nothing
RemoveNothing(b, storeKey) == b

\* SecureStore.deleteItemAsync / AsyncStorage.removeItem
Remove(b, storeKey) == [b EXCEPT ![storeKey] = Absent]

\* the write that leaves bytes of its own under the key
PutTorn(b, storeKey, item) ==
  [b EXCEPT ![storeKey] = [item EXCEPT !.plain = Garbage]]

\* SecureStore.setItemAsync / AsyncStorage.setItem: the item under the key is
\* replaced as a whole
Put(b, storeKey, item) == [b EXCEPT ![storeKey] = item]

\* secure-storage.ts:36-53: setItem returns without throwing; ok: the
\* platform write succeeds, enc: the cipher succeeds
SetOk(ok, enc) == IF platformOS # "web" THEN ok ELSE enc /\ ok

\* secure-storage.ts:35-54
SetItem(key, value, ok, failed, enc) ==
  /\ IF platformOS # "web"
     THEN /\ backend' = IF ok THEN Put(backend, prefixedKey(key), Plain(value))
                             ELSE backend
          /\ UNCHANGED <<encryptionKeyPromise, nkeys>>
     ELSE /\ UseKey(failed)
          /\ backend' = IF enc /\ ok
                        THEN Put(backend, prefixedKey(key),
                                 encrypt(value, KeyFor(failed)))
                        ELSE backend
  /\ written' = IF SetOk(ok, enc) THEN [written EXCEPT ![key] = value]
                                  ELSE written
  /\ lastOp' = [op |-> "set", key |-> key, ret |-> None,
                threw |-> ~SetOk(ok, enc), has |-> FALSE, read |-> FALSE]
  /\ UNCHANGED <<platformOS, calls, clientVars, authVars>>

\* secure-storage.ts:62-80, the value getItem returns; ok: the platform read
\* succeeds
getItem(key, ok, cipherKey, outcome) ==
  IF ~ok THEN None
  ELSE IF platformOS # "web" THEN backend[prefixedKey(key)].plain
  ELSE IF backend[prefixedKey(key)] = Absent THEN None
  ELSE IF decrypt(backend[prefixedKey(key)], cipherKey, outcome) = Threw
       THEN None
  ELSE decrypt(backend[prefixedKey(key)], cipherKey, outcome)

\* the key is asked for only when there is something to decrypt
ReadKey(key, ok, failed) ==
  IF ok /\ platformOS = "web" /\ backend[prefixedKey(key)] # Absent
  THEN UseKey(failed)
  ELSE UNCHANGED <<encryptionKeyPromise, nkeys>>

\* secure-storage.ts:62-80
GetItem(key, ok, failed, outcome) ==
  /\ ReadKey(key, ok, failed)
  /\ lastOp' = [op |-> "get", key |-> key,
                ret |-> getItem(key, ok, KeyFor(failed), outcome),
                threw |-> FALSE, has |-> FALSE, read |-> ok]
  /\ UNCHANGED <<platformOS, backend, written, calls, clientVars, authVars>>

\* secure-storage.ts:145-148
HasKey(key, ok, failed, outcome) ==
  /\ ReadKey(key, ok, failed)
  /\ lastOp' = [op |-> "has", key |-> key,
                ret |-> getItem(key, ok, KeyFor(failed), outcome),
                threw |-> FALSE,
                has |-> getItem(key, ok, KeyFor(failed), outcome) # None,
                read |-> ok]
  /\ UNCHANGED <<platformOS, backend, written, calls, clientVars, authVars>>

\* secure-storage.ts:88-104; ok: the platform removal succeeds
DeleteItem(key, ok) ==
  /\ backend' = IF ok THEN Remove(backend, prefixedKey(key)) ELSE backend
  /\ written' = IF ok THEN [written EXCEPT ![key] = None] ELSE written
  /\ lastOp' = [op |-> "delete", key |-> key, ret |-> None, threw |-> ~ok,
                has |-> FALSE, read |-> FALSE]
  /\ UNCHANGED <<platformOS, encryptionKeyPromise, nkeys, calls, clientVars,
                 authVars>>

\* secure-storage.ts:156-167; ok: getAllKeys and multiRemove succeed
Clear(ok) ==
  /\ IF platformOS = "web" /\ ok
     THEN /\ backend' = [k \in StoreKeys |->
                           IF startsWith(k, KEY_PREFIX) THEN Absent
                                                        ELSE backend[k]]
          /\ written' = [k \in Keys |->
                           IF startsWith(prefixedKey(k), KEY_PREFIX)
                           THEN None ELSE written[k]]
     ELSE UNCHANGED <<backend, written>>
  /\ lastOp' = [op |-> "clear", key |-> "none", ret |-> None,
                threw |-> (platformOS = "web" /\ ~ok), has |-> FALSE,
                read |-> FALSE]
  /\ UNCHANGED <<platformOS, encryptionKeyPromise, nkeys, calls, clientVars,
                 authVars>>

\* encryption.ts:43-46: the key is derived again, whatever it was
InitEncryption(failed) ==
  /\ nkeys < MaxKeys
  /\ encryptionKeyPromise' = getEncryptionKey(failed)
  /\ nkeys' = nkeys + 1
  /\ lastOp' = NoOp
  /\ UNCHANGED <<platformOS, backend, written, calls, clientVars, authVars>>

\* encryption.ts:37: the process starts again, the platform store is durable
Restart ==
  /\ encryptionKeyPromise # 0
  /\ encryptionKeyPromise' = 0
  /\ lastOp' = NoOp
  /\ UNCHANGED <<platformOS, backend, nkeys, written, calls, clientVars,
                 authVars>>

\* the storage layer alone: the API client is not running
InitStorage ==
  /\ store = [auth_token |-> None, refresh_token |-> None]
  /\ isRefreshingToken = FALSE
  /\ tokenRefreshPromise = 0
  /\ nref = 0
  /\ ref = [k \in Refresh |-> NoRefresh]
  /\ req = [r \in Req |-> [NewRequest EXCEPT !.pc = "off"]]
  /\ microq = <<>>
  /\ AuthUnused
  /\ platformOS \in {"native", "web"}
  /\ backend \in {[k \in StoreKeys |->
                     IF k \in OtherKeys THEN other ELSE Absent] :
                  other \in {Absent, Plain(1)}}
  /\ encryptionKeyPromise = 0
  /\ nkeys = 0
  /\ written = [k \in Keys |-> None]
  /\ lastOp = NoOp
  /\ calls = [c \in Call |-> NoCall]

\* the calls of SecureStorage within one run of the process
NextStorage ==
  \/ \E key \in Keys, value \in Secrets, ok, failed, enc \in BOOLEAN :
        SetItem(key, value, ok, failed, enc)
  \/ \E key \in Keys, ok, failed \in BOOLEAN, outcome \in WrongKeyOutcomes :
        GetItem(key, ok, failed, outcome)
  \/ \E key \in Keys, ok, failed \in BOOLEAN, outcome \in WrongKeyOutcomes :
        HasKey(key, ok, failed, outcome)
  \/ \E key \in Keys, ok \in BOOLEAN : DeleteItem(key, ok)
  \/ \E ok \in BOOLEAN : Clear(ok)

SpecStorage == InitStorage /\ [][NextStorage]_vars

\* the same calls, with the key derived again by initEncryption or by the
\* next run of the process
NextRekey ==
  \/ NextStorage
  \/ \E failed \in BOOLEAN : InitEncryption(failed)
  \/ Restart

SpecRekey == InitStorage /\ [][NextRekey]_vars

(***************************************************************************)
(* Concurrent calls.  A SecureStorage call runs up to its platform call    *)
(* in one step and completes in another, so that calls overlap: a set has  *)
(* its value encrypted (the key promise is assigned synchronously on first *)
(* use and does not change afterwards), then writes; a get reads, then     *)
(* decrypts what it read.  The platform call itself is one step.           *)
(***************************************************************************)
\* the next call made takes record c
FreeSlot(c) ==
  calls[c].pc = "free" /\ \A d \in Call : d < c => calls[d].pc # "free"

\* secure-storage.ts:35-48: setItem up to the platform write it issues
SetStart(c, key, value, failed, enc) ==
  /\ FreeSlot(c)
  /\ IF platformOS # "web"
     THEN /\ calls' = [calls EXCEPT ![c] =
                        [NoCall EXCEPT !.op = "set", !.pc = "write",
                                       !.key = key, !.value = value,
                                       !.blob = Plain(value)]]
          /\ UNCHANGED <<encryptionKeyPromise, nkeys>>
     ELSE /\ UseKey(failed)
          /\ calls' = [calls EXCEPT ![c] =
                        IF enc
                        THEN [NoCall EXCEPT !.op = "set", !.pc = "write",
                                            !.key = key, !.value = value,
                                            !.blob = encrypt(value, KeyFor(failed))]
                        ELSE [NoCall EXCEPT !.op = "set", !.pc = "done",
                                            !.key = key, !.value = value,
                                            !.threw = TRUE]]
  /\ UNCHANGED <<platformOS, backend, written, lastOp, clientVars, authVars>>

\* secure-storage.ts:41-53: the platform write completes
SetWrite(c, ok) ==
  /\ calls[c].op = "set" /\ calls[c].pc = "write"
  /\ backend' = IF ok THEN Put(backend, prefixedKey(calls[c].key), calls[c].blob)
                      ELSE backend
  /\ written' = IF ok THEN [written EXCEPT ![calls[c].key] = calls[c].value]
                      ELSE written
  /\ calls' = [d \in Call |->
                IF d = c
                THEN [calls[c] EXCEPT !.pc = "done", !.threw = ~ok]
                ELSE IF /\ ok
                        /\ calls[d].op = "get" /\ calls[d].pc = "read"
                        /\ calls[d].key = calls[c].key
                     THEN [calls[d] EXCEPT !.seen = @ \cup {calls[c].value}]
                     ELSE calls[d]]
  /\ UNCHANGED <<platformOS, encryptionKeyPromise, nkeys, lastOp, clientVars,
                 authVars>>

\* secure-storage.ts:62-71: getItem up to the platform read it issues
GetStart(c, key) ==
  /\ FreeSlot(c)
  /\ calls' = [calls EXCEPT ![c] =
                [NoCall EXCEPT !.op = "get", !.pc = "read", !.key = key,
                               !.prev = written[key]]]
  /\ UNCHANGED <<platformOS, backend, encryptionKeyPromise, nkeys, written,
                 lastOp, clientVars, authVars>>

\* secure-storage.ts:67-79: the platform read completes, the item read is
\* decrypted and returned
GetRead(c, ok, failed, outcome) ==
  /\ calls[c].op = "get" /\ calls[c].pc = "read"
  /\ ReadKey(calls[c].key, ok, failed)
  /\ calls' = [calls EXCEPT ![c] =
                [@ EXCEPT !.pc = "done", !.read = ok,
                          !.ret = getItem(calls[c].key, ok, KeyFor(failed),
                                          outcome)]]
  /\ UNCHANGED <<platformOS, backend, written, lastOp, clientVars, authVars>>

\* the key the overlapping calls are made on: calls on different keys work
\* on different items of the platform store
ConcKeys == {"auth_token"}

\* set and get calls that overlap
NextConc ==
  \/ \E c \in Call, key \in ConcKeys, value \in Secrets,
          failed, enc \in BOOLEAN :
        SetStart(c, key, value, failed, enc)
  \/ \E c \in Call, ok \in BOOLEAN : SetWrite(c, ok)
  \/ \E c \in Call, key \in ConcKeys : GetStart(c, key)
  \/ \E c \in Call, ok, failed \in BOOLEAN, outcome \in WrongKeyOutcomes :
        GetRead(c, ok, failed, outcome)

SpecConc == InitStorage /\ [][NextConc]_vars

(***************************************************************************)
(* The cipher called directly, within one run of the process.              *)
(***************************************************************************)
\* encryption.ts:54-83: encrypt(data); enc: the cipher succeeds
Encrypt(c, data, failed, enc) ==
  /\ FreeSlot(c)
  /\ UseKey(failed)
  /\ calls' = [calls EXCEPT ![c] =
                [NoCall EXCEPT !.op = "encrypt", !.pc = "done",
                               !.value = data, !.threw = ~enc,
                               !.blob = IF enc
                                        THEN encrypt(data, KeyFor(failed))
                                        ELSE Absent]]
  /\ UNCHANGED <<platformOS, backend, written, lastOp, clientVars, authVars>>

\* encryption.ts:91-123: decrypt applied to the output of call d
Decrypt(c, d, failed, outcome) ==
  /\ FreeSlot(c)
  /\ calls[d].op = "encrypt" /\ ~calls[d].threw
  /\ UseKey(failed)
  /\ calls' = [calls EXCEPT ![c] =
                [NoCall EXCEPT
                   !.op = "decrypt", !.pc = "done", !.src = d,
                   !.ret = decrypt(calls[d].blob, KeyFor(failed), outcome),
                   !.threw = (decrypt(calls[d].blob, KeyFor(failed), outcome)
                                = Threw)]]
  /\ UNCHANGED <<platformOS, backend, written, lastOp, clientVars, authVars>>

InitCipher == InitStorage /\ platformOS = "web"

\* the three exported functions of encryption.ts, in any order
NextCipher ==
  \/ \E c \in Call, data \in Secrets, failed, enc \in BOOLEAN :
        Encrypt(c, data, failed, enc)
  \/ \E c, d \in Call, failed \in BOOLEAN, outcome \in WrongKeyOutcomes :
        Decrypt(c, d, failed, outcome)
  \/ \E failed \in BOOLEAN : InitEncryption(failed)

SpecCipher == InitCipher /\ [][NextCipher]_vars

(***************************************************************************)
(* Properties                                                              *)
(***************************************************************************)
\* the requests that observed their 401 during the refresh cycle opened by refresh j
Cohort(j) == {r \in Req : req[r].join = j}

\* the calls of the refresh endpoint made by the members of the cycle of refresh j
CohortCalls(j) == {k \in Refresh : ref[k].posted /\ ref[k].by \in Cohort(j)}

\* the request has finished the refresh protocol (replayed or failed)
PastProtocol(r) == req[r].ent > 0 /\ req[r].pc \in {"replay", "sent", "done"}

\* C1: the requests that observe a 401 for one invalidation (the leader and the
\* requests that join while its refresh is outstanding) cause at most one call
\* of the refresh endpoint, and all of them resolve from the refresh they joined.
C1_SingleFlight ==
  \A j \in Refresh :
    /\ Cardinality(CohortCalls(j)) <= 1
    /\ \A r \in Cohort(j) : PastProtocol(r) => req[r].aw = j

\* C2: at most one call of refreshToken() is executing in every reachable state.
C2_AtMostOneRefresh == Cardinality({k \in Refresh : Executing(k)}) <= 1

\* C3: a request that joined as a follower never calls refreshToken() itself.
C3_FollowerNeverRefreshes ==
  \A k \in Refresh : ref[k].pc # "unused" => req[ref[k].by].role # "follower"

\* C4: when the awaited refresh failed, the request fails with AUTH_REQUIRED
\* and was not replayed.
C4_FailureIsAuthRequired ==
  \A r \in Req :
    (req[r].pc = "done" /\ req[r].aw # 0 /\ ref[req[r].aw].pc = "rejected")
      => (req[r].res = "AUTH_REQUIRED" /\ req[r].sent = 1)

\* C5: a request is dispatched at most twice and enters the refresh protocol
\* at most once.
C5_AtMostOneReplay ==
  \A r \in Req : req[r].sent <= 2 /\ req[r].ent <= 1

\* a request that got 401, was replayed, got 401 again and was returned
C5_Witness ==
  \E r \in Req : req[r].pc = "done" /\ req[r].sent = 2 /\ req[r].s401 = 2

\* C6: a request whose replay after a successful refresh got 401 again is
\* returned with the AUTH_REQUIRED error kind.
C6_Replay401IsAuthRequired ==
  \A r \in Req :
    (req[r].pc = "done" /\ req[r].sent = 2 /\ req[r].s401 = 2)
      => req[r].res = "AUTH_REQUIRED"

\* C7: a follower of a refresh that succeeded is replayed carrying exactly the
\* token that refresh produced.
C7_FollowerSameOutcome ==
  \A r \in Req :
    (req[r].role = "follower" /\ req[r].sent = 2 /\ ref[req[r].join].pc = "resolved")
      => req[r].hdr = ref[req[r].join].val

\* C8: a request replayed after a successful refresh is dispatched after the new
\* token was written to the store, at most once, and carries that new token.
C8_StoredThenReplayedWithNewToken ==
  \A r \in Req :
    (req[r].sent >= 2 /\ ref[req[r].aw].pc = "resolved")
      => /\ ref[req[r].aw].stored
         /\ req[r].sent = 2
         /\ req[r].hdr = ref[req[r].aw].val

\* every started refresh has settled, the flag is cleared and every request
\* that entered the refresh protocol has been returned to its caller
Quiescent ==
  /\ \A k \in Refresh : ref[k].pc # "unused" => Settled(k)
  /\ ~isRefreshingToken
  /\ \A r \in Req : req[r].ent > 0 => req[r].pc = "done"

C10_UnauthenticatedOnReport ==
  [][\A r \in Req :
       (req[r].res # "AUTH_REQUIRED" /\ req'[r].res = "AUTH_REQUIRED")
         => /\ ~isRefreshingToken'
            /\ store'.auth_token = None
            /\ store'.refresh_token = None]_vars

\* C12: a request whose connectivity check reports no connection is returned
\* without being dispatched; the step starts no refresh and leaves the
\* request's retry mark and its entry count into the refresh protocol alone.
C12_OfflineNeverDispatched ==
  [][\A r \in Req, hasEnv, aborted \in BOOLEAN :
       RequestInterceptor(r, FALSE, hasEnv, aborted)
         => /\ req'[r].pc = "done"
            /\ req'[r].sent = req[r].sent
            /\ req'[r].retry = req[r].retry
            /\ req'[r].ent = req[r].ent
            /\ nref' = nref
            /\ isRefreshingToken' = isRefreshingToken]_vars

\* a replay stopped by the connectivity check: the request was dispatched once,
\* refreshed, and was returned with the error of the interceptor's rejection
\* (a replay always has its `environment`, so only the connectivity test rejects it)
C12_Witness ==
  \E r \in Req :
    /\ req[r].pc = "done" /\ req[r].sent = 1 /\ req[r].ent = 1
    /\ req[r].res = "CLIENT_ERROR"

\* C13: a request whose connectivity check reports no connection fails with
\* the NETWORK_ERROR kind.
C13_OfflineIsNetworkError ==
  [][\A r \in Req, hasEnv, aborted \in BOOLEAN :
       RequestInterceptor(r, FALSE, hasEnv, aborted)
         => req'[r].res = "NETWORK_ERROR"]_vars

\* the error kinds of the taxonomy
Taxonomy == {"NETWORK_ERROR", "AUTH_REQUIRED", "API_ERROR", "CLIENT_ERROR"}

\* C17: every failed request is returned with a kind of the taxonomy.
C17_ErrorsInTaxonomy ==
  \A r \in Req :
    (req[r].pc = "done" /\ req[r].res # "OK") => req[r].res \in Taxonomy

\* C18: every request that passes the connectivity check (and is not
\* cancelled by its caller) is dispatched: attaching the compliance headers
\* does not make it fail.
C18_ComplianceHeadersNeverFail ==
  [][\A r \in Req, hasEnv \in BOOLEAN :
       RequestInterceptor(r, TRUE, hasEnv, FALSE) => req'[r].pc = "sent"]_vars

\* the error handler of request r has deleted the stored access token
DeletedFor(r) == req[r].pc = "catch2"

\* C11: stored tokens are deleted because of a failed request only when the
\* failure is AUTH_REQUIRED: a request returned with another error had no
\* token deleted by its handler, and a session-validation call that failed
\* with another error leaves the store as it is.
C11_DeletionOnlyOnAuthRequired ==
  [][/\ \A r \in Req :
          (req[r].pc # "done" /\ req'[r].pc = "done"
             /\ req'[r].res \notin {"OK", "AUTH_REQUIRED"}) => ~DeletedFor(r)
     /\ \A ok \in BOOLEAN :
          CheckAuthDelete(ok)
            => (req[auth.r].res = "AUTH_REQUIRED" \/ store' = store)]_vars

\* C14: a request is dispatched carrying the access token the store holds when
\* the pipeline reads it, and carrying none when the store holds none.
C14_BearerIffStored ==
  [][\A r \in Req :
       req'[r].sent = req[r].sent + 1
         => req'[r].hdr = (IF Truthy(store.auth_token) THEN store.auth_token
                                                       ELSE None)]_vars

\* C15: when login succeeds the store holds the access token of the login
\* response and a refresh token.
C15_LoginStoresBothTokens ==
  [][\A ok \in BOOLEAN :
       (LoginSetItem(ok) /\ auth'.out = "ok")
         => /\ store'.auth_token = LoginToken
            /\ Truthy(store'.refresh_token)]_vars

\* C16: when logout completes the store holds neither the access token nor
\* the refresh token.
C16_LogoutClearsTokens ==
  [][\A ok \in BOOLEAN :
       Logout(ok) => /\ store'.auth_token = None
                     /\ store'.refresh_token = None]_vars

C20_AbsentOnKeyChange ==
  (/\ lastOp.op \in {"get", "has"} /\ lastOp.read
   /\ platformOS = "web"
   /\ backend[prefixedKey(lastOp.key)] # Absent
   /\ backend[prefixedKey(lastOp.key)].key # encryptionKeyPromise)
    => /\ lastOp.ret = None
       /\ ~lastOp.threw
       /\ ~lastOp.has

\* C26: the flag and the handle are cleared only when the refresh the handle
\* designates has completed: no step clears them while that refresh is still
\* executing.
C26_ClearedOnlyByOwnRefresh ==
  [][(tokenRefreshPromise # 0 /\ tokenRefreshPromise' = 0)
       => ~Executing(tokenRefreshPromise)]_vars

\* C27: a refresh that finds no refresh token in the store makes no call of
\* the refresh endpoint, and every request that awaited it is returned with
\* AUTH_REQUIRED.
C27_NoRefreshTokenIsAuthRequired ==
  [][/\ \A k \in Refresh :
          (RefreshGetItem(k) /\ ~Truthy(store.refresh_token))
            => (~ref'[k].posted /\ ref'[k].pc = "rejected")
     /\ \A r \in Req :
          (/\ req[r].pc # "done" /\ req'[r].pc = "done"
           /\ req[r].aw # 0
           /\ ref[req[r].aw].pc = "rejected" /\ ~ref[req[r].aw].posted)
            => req'[r].res = "AUTH_REQUIRED"]_vars

\* C28: once logout has completed the access token stays absent until the
\* next login: while logout is the last operation of the auth store and it
\* succeeded, the store holds no access token.
C28_NoTokenAfterLogout ==
  (auth.op = "logout" /\ auth.pc = "done" /\ auth.out = "ok")
    => store.auth_token = None

\* C29: the access token a login stored is deleted by the refresh protocol
\* only for a refresh that started after that login.
C29_LoginTokenOutlivesOldRefresh ==
  [][\A r \in Req, ok \in BOOLEAN :
       (/\ DeleteAuthToken(r, ok)
        /\ store.auth_token = LoginToken
        /\ store'.auth_token = None)
         => req[r].aw > auth.loginAt]_vars

\* C30: whenever no operation of the auth store is in progress,
\* isAuthenticated implies that the store holds an access token.
C30_AuthenticatedImpliesToken ==
  (auth.pc \in {"idle", "done"} /\ auth.isAuthenticated)
    => Truthy(store.auth_token)

\* C21: on the fallback backend every item SecureStorage has written to the
\* platform store is an encrypted blob, never the plain value, and a setItem
\* whose encryption fails writes nothing.
C21_FallbackStoresOnlyCiphertext ==
  /\ [](platformOS = "web" =>
         \A k \in Keys :
           \/ backend[prefixedKey(k)] = Absent
           \/ backend[prefixedKey(k)].iv /\ backend[prefixedKey(k)].key # 0)
  /\ [][\A key \in Keys, value \in Secrets, ok, failed \in BOOLEAN :
          (platformOS = "web" /\ SetItem(key, value, ok, failed, FALSE))
            => (backend' = backend /\ lastOp'.threw)]_vars

\* C21 witness: on the fallback backend one key holds an encrypted value and
\* a setItem on the other key has just failed, leaving nothing under it.
C21_Witness ==
  /\ platformOS = "web"
  /\ lastOp.op = "set" /\ lastOp.threw
  /\ backend[prefixedKey(lastOp.key)] = Absent
  /\ \E k \in Keys :
       /\ backend[prefixedKey(k)].iv
       /\ backend[prefixedKey(k)].plain \in Secrets

\* C22: within one run of the process the encryption key, once initialized,
\* is never replaced: every later encrypt and decrypt uses the same key.
C22_KeyInitializedOnce ==
  [][encryptionKeyPromise # 0
       => encryptionKeyPromise' = encryptionKeyPromise]_vars

C24_ClearRemovesOnlyPrefixedKeys ==
  [][\A ok \in BOOLEAN :
       Clear(ok) =>
         /\ \A k \in OtherKeys : backend'[k] = backend[k]
         /\ (platformOS = "web" /\ ok)
              => \A key \in Keys : backend'[prefixedKey(key)] = Absent
         /\ platformOS # "web" => backend' = backend]_vars

\* C24 witness: clear has just succeeded on the fallback backend after the
\* cipher was used for an item, and the other key still holds its value.
C24_Witness ==
  /\ platformOS = "web"
  /\ lastOp.op = "clear" /\ ~lastOp.threw
  /\ encryptionKeyPromise # 0
  /\ \A key \in Keys : backend[prefixedKey(key)] = Absent
  /\ \E k \in OtherKeys : backend[k] # Absent

\* C25: decrypt applied to the output of encrypt(s) in the same run of the
\* process returns s.
C25_RoundTrip ==
  \A c \in Call :
    (calls[c].op = "decrypt" /\ calls[c].pc = "done")
      => calls[c].ret = calls[calls[c].src].value

=============================================================================
